---- MODULE Spec2Model ----
(***************************************************************************)
(* Batch backtesting service of hummingbot-api: the job registry           *)
(* (BatchBacktestingService.active_tasks), the orchestrator coroutine of   *)
(* every batch, its units of work behind the per-batch asyncio.Semaphore,  *)
(* and the router operations that submit, query and delete batches;        *)
(* and the performance ratio engine, utils.calculate_performance_ratios.   *)
(*                                                                         *)
(* The service runs on one asyncio event loop: a coroutine runs without    *)
(* interruption from one await that suspends to the next.  Every action    *)
(* below is one such uninterrupted stretch of code.                        *)
(***************************************************************************)
EXTENDS Integers, Sequences, FiniteSets, TLC

(* ---- bounds of the model ---------------------------------------------- *)
\* number of task ids uuid4() hands out in a run
MaxTasks == 2
\* longest accepted configs list that is submitted
MaxConfigs == 3
\* largest explicit max_concurrent that is submitted
MaxConcurrent == 2
\* configurations submitted in a run, over all batches
MaxUnits == 3
\* longest executors list handed to calculate_performance_ratios
MaxTrades == 3
\* configurations submitted in a run in which every batch leaves
\* max_concurrent out
MaxDefaultUnits == 6
\* hours the clock runs for
MaxHours == 2
\* largest max_age_hours handed to cleanup_completed_tasks
MaxAgeHours == 1

(* ---- program constants ------------------------------------------------- *)
\* routers/backtesting.py: len(batch_config.configs) > 1000 is rejected
MaxAllowedConfigs == 1000
\* batch_backtesting_service.py: asyncio.Semaphore(config.max_concurrent or 5)
DefaultConcurrent == 5
\* metrics_calculator.py: (end_ts - start_ts) / 86400.0
SecondsPerDay == 86400
\* metrics_calculator.py: 365.0 / n_days
DaysPerYear == 365
\* metrics_calculator.py: periods_per_year = 252.0
DefaultPeriodsPerYear == 252

VARIABLES
    active_tasks,   \* keys of BatchBacktestingService.active_tasks
    rec,            \* task id -> the BatchBacktestingResult object created for it
    cfg,            \* task id -> the BatchBacktestingConfig it was submitted with
    configs,        \* task id -> config index -> the object batch_config.configs[index]
    orch,           \* task id -> position of _execute_batch_backtesting
    pc,             \* task id -> config index -> position of the unit of work
    outcome,        \* task id -> config index -> how the unit of work ended
    semaphore,      \* task id -> value of the semaphore made by the orchestrator
    launched,       \* task id -> config index -> entries into _execute_single_backtesting
    deleted,        \* task ids whose DELETE request was answered 200
    response,       \* the request or service call of the step just taken, if it was one
    ratios_call,    \* a call of calculate_performance_ratios: arguments, locals, result
    now,            \* datetime.now(), in hours
    credentials     \* (account, connector) -> the credentials AccountsService stores

\* the state of the service and of its coroutines
state == <<active_tasks, rec, cfg, configs, orch, pc, outcome, semaphore, launched, deleted>>

vars == <<state, response, ratios_call, now, credentials>>

(* ---- values ------------------------------------------------------------ *)
TaskIds == 1..MaxTasks

\* Optional[int]: <<>> is None, <<k>> is the integer k
None == <<>>
MaxConcurrentValues == {None} \cup {<<k>> : k \in -1..MaxConcurrent}

\* lengths of the configs list a request may carry: empty, accepted, oversized
ConfigCounts == 0..MaxConfigs \cup {MaxAllowedConfigs + 1}

Terminal == {"completed", "failed"}

\* accounts, connectors and credentials the accounts router is asked about,
\* and the store in which no connector has credentials
Accounts == {"master_account", "trader"}
Connectors == {"binance", "kucoin"}
CredentialsValues == {"keys_1", "keys_2"}
NoCredentials == [key \in Accounts \X Connectors |-> None]

\* An HTTP exchange: the endpoint, its argument (the length of configs for a
\* submission, the task_id of the path otherwise), the status code and the
\* task_id of the body (0 when the body carries none).  A step of a coroutine
\* answers no request.
Exchange(endpoint, arg, status_code, task_id) ==
    [endpoint |-> endpoint, arg |-> arg, status_code |-> status_code, task_id |-> task_id]
NoResponse == Exchange("none", 0, 0, 0)

\* progress_percentage is a float; it is kept as the exact fraction num/den
Fraction(n, d) == [num |-> n, den |-> d]

Indices(j) == 0..(cfg[j].n - 1)

(* ---- pure helpers ------------------------------------------------------ *)
\* Python's `x or 5` on an Optional[int]: None and 0 are falsy
OrDefault(mc) == IF mc = None THEN DefaultConcurrent
                 ELSE IF mc[1] = 0 THEN DefaultConcurrent
                 ELSE mc[1]

\* line 50: the initial value of the batch's semaphore
SemaphoreInit_ServiceDefault(mc) == DefaultConcurrent
SemaphoreInit(mc) == OrDefault(mc)

\* routers/backtesting.py line 257: the max_concurrent the submit response reports
ReportedMaxConcurrent(mc) == OrDefault(mc)

\* line 86: Semaphore.acquire() returns without waiting iff the value is positive
CanAcquire(value) == value > 0

\* lines 46 and 97: self.active_tasks[task_id] raises KeyError for a key that
\* is not in the registry
KeyError_Never(registry, task_id) == FALSE
KeyError(registry, task_id) == task_id \notin registry

\* line 86: `async with semaphore` releases when the unit body ends with
\* outcome o, whether it returned or raised
release_OnReturnOnly(value, o) == IF o = "raised" THEN value ELSE value + 1
release(value, o) == value + 1

\* line 47: the orchestrator marks the record running
StartedRecord_StatusKept(r) == r
StartedRecord(r) == [r EXCEPT !.status = "running"]

\* BatchBacktestingResult(...) as start_batch_backtesting builds it
NewResult_Running(task_id, n) ==
    [task_id             |-> task_id,
     status              |-> "running",
     total_configs       |-> n,
     completed_configs   |-> 0,
     failed_configs      |-> 0,
     results             |-> <<>>,
     errors              |-> <<>>,
     progress_percentage |-> Fraction(0, 1)]
NewResult(task_id, n) ==
    [task_id             |-> task_id,
     status              |-> "pending",
     total_configs       |-> n,
     completed_configs   |-> 0,
     failed_configs      |-> 0,
     results             |-> <<>>,
     errors              |-> <<>>,
     progress_percentage |-> Fraction(0, 1)]

\* the request validation of run_batch_backtesting
Accepted_SizeOnly(n) == ~(n > MaxAllowedConfigs)
Accepted(n) == ~(n = 0) /\ ~(n > MaxAllowedConfigs)

\* lines 160-161: progress after a unit committed its outcome
UpdateProgress_SuccessRate(r) ==
    [r EXCEPT !.progress_percentage =
        Fraction(r.completed_configs * 100, r.completed_configs + r.failed_configs)]
UpdateProgress_CompletedOnly(r) ==
    [r EXCEPT !.progress_percentage = Fraction(r.completed_configs * 100, r.total_configs)]
UpdateProgress(r) ==
    [r EXCEPT !.progress_percentage =
        Fraction((r.completed_configs + r.failed_configs) * 100, r.total_configs)]

\* lines 130-137: a valid result bundle
(* ---- configurations ---------------------------------------------------- *)
\* A str is a sequence of characters.  A value of a configuration dict and an
\* item of batch_config.configs carry their Python type.
Whitespace == {" "}
StrValue(chars) == [type |-> "str", value |-> chars]
IntValue(k) == [type |-> "int", value |-> k]
DictValue(d) == [type |-> "dict", value |-> d]

\* str.strip(): drops the leading and the trailing whitespace
RECURSIVE lstrip(_)
lstrip(chars) ==
    IF chars # <<>> /\ Head(chars) \in Whitespace THEN lstrip(Tail(chars)) ELSE chars
RECURSIVE rstrip(_)
rstrip(chars) ==
    IF chars # <<>> /\ chars[Len(chars)] \in Whitespace
    THEN rstrip(SubSeq(chars, 1, Len(chars) - 1))
    ELSE chars
strip(chars) == rstrip(lstrip(chars))

\* lines 163-171: a new dict with every str value stripped
_clean_config_data(config_data) ==
    [key \in DOMAIN config_data |->
        IF config_data[key].type = "str"
        THEN StrValue(strip(config_data[key].value))
        ELSE config_data[key]]

\* lines 100-104: the configuration handed to the controller factory
cleaned_config(config_item) ==
    IF config_item.type = "dict"
    THEN DictValue(_clean_config_data(config_item.value))
    ELSE config_item

Digits == <<"0", "1", "2", "3", "4", "5", "6", "7", "8", "9">>

\* The item at position i of a submission: a dict whose connector_name is
\* padded with blanks at even positions, the path of a yml file at odd ones.
SubmittedConfig(i) ==
    IF i % 2 = 0
    THEN DictValue([connector_name |-> StrValue(<<" ", "k", " ">>),
                    total_amount_quote |-> IntValue(100 + i)])
    ELSE StrValue(<<"c", Digits[i + 1], ".", "y", "m", "l", " ">>)

\* _clean_config_data fills a dict of its own and leaves config_data, the
\* object of batch_config.configs, as it is
ConfigAfterClean_InPlace(config_item) == cleaned_config(config_item)
ConfigAfterClean(config_item) == config_item

\* lines 130-135: the record of a valid result; "config" is config_item, the
\* object of batch_config.configs, and "results" the dict run_backtesting
\* returned, to which calculate_performance_ratios is not applied
processed_result(task_id, i) ==
    [config_index |-> i, config |-> configs[task_id][i], ratio_engine |-> FALSE,
     timestamp |-> now]

\* lines 139-144 and 150-155: the record of a failure
error_info(task_id, i, msg) ==
    [config_index |-> i, config |-> configs[task_id][i], error |-> msg,
     timestamp |-> now]

CommitResult_NoCount(r, i) ==
    [r EXCEPT !.results = Append(@, processed_result(r.task_id, i))]
CommitResult_Overwrite(r, i) ==
    [r EXCEPT !.results = <<processed_result(r.task_id, i)>>,
              !.completed_configs = @ + 1]
CommitResult(r, i) ==
    [r EXCEPT !.results = Append(@, processed_result(r.task_id, i)),
              !.completed_configs = @ + 1]

\* lines 139-146 and 150-157: an error record
CommitError_Twice(r, i, msg) ==
    [r EXCEPT !.errors = Append(@, error_info(r.task_id, i, msg)),
              !.failed_configs = @ + 2]
CommitError_AlsoResult(r, i, msg) ==
    [r EXCEPT !.results = Append(@, processed_result(r.task_id, i)),
              !.errors = Append(@, error_info(r.task_id, i, msg)),
              !.failed_configs = @ + 1]
CommitError_CountOnly(r, i, msg) ==
    [r EXCEPT !.failed_configs = @ + 1]
CommitError_Swallowed(r, i, msg) == r
CommitError(r, i, msg) ==
    [r EXCEPT !.errors = Append(@, error_info(r.task_id, i, msg)),
              !.failed_configs = @ + 1]

\* lines 128-157: what a unit commits for the outcome o of run_backtesting:
\* a non-empty dict ("ok"), anything else returned ("invalid"), an exception
CommitOutcome_InvalidIgnored(r, i, o) ==
    CASE o = "ok"      -> CommitResult(r, i)
      [] o = "invalid" -> r
      [] o = "raised"  -> CommitError(r, i, "evaluator error")
CommitOutcome_Unchecked(r, i, o) ==
    CASE o = "ok"      -> CommitResult(r, i)
      [] o = "invalid" -> CommitResult(r, i)
      [] o = "raised"  -> CommitError(r, i, "evaluator error")
CommitOutcome(r, i, o) ==
    CASE o = "ok"      -> CommitResult(r, i)
      [] o = "invalid" -> CommitError(r, i, "Invalid backtesting results")
      [] o = "raised"  -> CommitError(r, i, "evaluator error")

\* lines 66-71: the terminal status
FinalStatus_FailedOnAnyError(r) ==
    IF r.failed_configs = 0 THEN "completed" ELSE "failed"
FinalStatus(r) ==
    IF r.failed_configs = 0 THEN "completed"
    ELSE IF r.completed_configs > 0 THEN "completed"
    ELSE "failed"

\* get_task_status: active_tasks.get(task_id); <<>> stands for None
get_task_status_EverCreated(task_id) ==
    IF task_id \in DOMAIN rec THEN <<rec[task_id]>> ELSE <<>>
get_task_status(task_id) ==
    IF task_id \in active_tasks THEN <<rec[task_id]>> ELSE <<>>

\* routers/backtesting.py `if not result`: a record object is always truthy
NotFound(result) == result = <<>>

\* del self.active_tasks[task_id]
Removed_Kept(tasks, task_id) == tasks
Removed(tasks, task_id) == tasks \ {task_id}

\* The coroutines of job j read active_tasks[task_id] (lines 46 and 97) and
\* then write to the object they got; none of them assigns into the dict.
RegistryAfter_WriteBack(tasks, j) == tasks \cup {j}
RegistryAfter(tasks, j) == tasks

\* lines 99-161: _execute_single_backtesting has no loop; after the branch
\* that commits its outcome o the coroutine ends
EndOfUnit_RetryOnError(o) == IF o = "raised" THEN "waiting" ELSE "done"
EndOfUnit(o) == "done"

InFlight(j) == {i \in Indices(j) : pc[j][i] = "in_evaluator"}
Unfinished(j) == {i \in Indices(j) : pc[j][i] \in {"waiting", "in_evaluator"}}

\* line 63: gather(*tasks, return_exceptions=True) returns once every unit
\* task has ended, normally or with an exception
AllDone_FirstCompleted(j) == \E i \in Indices(j) : pc[j][i] = "done"
AllDone(j) == \A i \in Indices(j) : pc[j][i] = "done"

(* ---- initial state: BatchBacktestingService() ------------------------- *)

(* ---- the performance ratio engine: values ------------------------------ *)
\* A float is kept exactly.  Rational(n, d) is n/d in lowest terms with a
\* positive denominator.
Abs(x) == IF x < 0 THEN 0 - x ELSE x
RECURSIVE GCD(_, _)
GCD(a, b) == IF b = 0 THEN a ELSE GCD(b, a % b)
Rational(n, d) ==
    LET g == GCD(Abs(n), Abs(d))
        sign == IF d < 0 THEN 0 - 1 ELSE 1
    IN  [num |-> sign * (n \div g), den |-> sign * (d \div g)]
RatAdd(a, b) == Rational(a.num * b.den + b.num * a.den, a.den * b.den)
RatSub(a, b) == Rational(a.num * b.den - b.num * a.den, a.den * b.den)
RatMul(a, b) == Rational(a.num * b.num, a.den * b.den)
RatDiv(a, b) == Rational(a.num * b.den, a.den * b.num)
RatLess(a, b) == a.num * b.den < b.num * a.den
RatMin(a, b) == IF RatLess(b, a) THEN b ELSE a
RatMax(a, b) == IF RatLess(a, b) THEN b ELSE a
RatAbs(a) == [num |-> Abs(a.num), den |-> a.den]

\* What a ratio can be: the literal 0.0, np.inf, nan, coef * sqrt(radicand),
\* base ** exponent - 1.0 as a float or as a complex number, or a growth
\* divided by a drawdown.
Zero == [kind |-> "zero"]
Inf == [kind |-> "inf"]
NaN == [kind |-> "nan"]
SqrtTerm(coef, radicand) == [kind |-> "sqrt_term", coef |-> coef, radicand |-> radicand]
Growth(base, exponent) == [kind |-> "growth", base |-> base, exponent |-> exponent]
Quotient(growth, drawdown) == [kind |-> "quotient", growth |-> growth, drawdown |-> drawdown]
\* float ** float with a negative base and an exponent that is not an
\* integer is a complex number, and so is everything computed from it
ComplexGrowth(base, exponent) == [kind |-> "complex", base |-> base, exponent |-> exponent]
\* an exception raised inside the try block
Raised(exception) == [kind |-> "raised", exception |-> exception]

\* the arguments of the engine: an optional number is None or <<k>>
NetPnlPctValues == {None, <<0>>, <<25>>, <<0 - 50>>, <<0 - 150>>}
StartTimes == {None, <<SecondsPerDay>>}
EndTimes == {None, <<11 * SecondsPerDay>>}
NDaysValues == {None, <<5>>}
MaxDrawdownPctValues == {None, <<0 - 20>>}
ResultBundles ==
    [net_pnl_pct : NetPnlPctValues, start_time : StartTimes, end_time : EndTimes,
     n_days : NDaysValues, max_drawdown_pct : MaxDrawdownPctValues]
\* a trade record and its percentage return, which may be missing or None
Trades == [net_pnl_pct : NetPnlPctValues]
\* executors: None and the empty list are both <<>>, and both are falsy
ExecutorLists == UNION {[1..k -> Trades] : k \in 0..MaxTrades}

(* ---- the performance ratio engine: calculate_performance_ratios -------- *)
\* d.get(key, 0) or 0.0
OrZero(v) == IF v = None THEN 0 ELSE v[1]
Truthy(v) == v # None /\ v[1] # 0

\* line 15
net_pnl_pct(results) == OrZero(results.net_pnl_pct)

\* lines 18-26
n_days(results) ==
    IF /\ Truthy(results.start_time)
       /\ Truthy(results.end_time)
       /\ results.end_time[1] > results.start_time[1]
    THEN Rational(results.end_time[1] - results.start_time[1], SecondsPerDay)
    ELSE Rational(OrZero(results.n_days), 1)

\* `if n_days and n_days > 0`
PeriodKnown(results) == n_days(results).num > 0

\* lines 33-42: annual_return / (0.01 * sqrt(365)), kept as
\* (annual_return * 100) * sqrt(1 / 365)
sharpe_ratio(results) ==
    IF PeriodKnown(results)
    THEN LET annual_return ==
                 RatMul(Rational(net_pnl_pct(results), 100),
                        RatDiv(Rational(DaysPerYear, 1), n_days(results)))
         IN  SqrtTerm(RatMul(annual_return, Rational(100, 1)), Rational(1, DaysPerYear))
    ELSE Zero

\* lines 50-64: a trade whose percentage is None or 0 adds nothing
RECURSIVE ExecutorReturns(_)
ExecutorReturns(executors) ==
    IF executors = <<>>
    THEN <<>>
    ELSE LET pnl_pct == Head(executors).net_pnl_pct
         IN  IF pnl_pct # None /\ pnl_pct[1] # 0
             THEN <<Rational(pnl_pct[1], 100)>> \o ExecutorReturns(Tail(executors))
             ELSE ExecutorReturns(Tail(executors))

\* lines 46-70
r_list(results, executors) ==
    IF executors # <<>> /\ Len(executors) > 0
    THEN ExecutorReturns(executors)
    ELSE IF net_pnl_pct(results) # 0
         THEN <<Rational(net_pnl_pct(results), 100)>>
         ELSE <<>>

\* lines 75-79
periods_per_year(results, r) ==
    IF PeriodKnown(results) /\ Len(r) > 1
    THEN RatMul(RatDiv(Rational(Len(r), 1), n_days(results)), Rational(DaysPerYear, 1))
    ELSE Rational(DefaultPeriodsPerYear, 1)

RECURSIVE RatSum(_)
RatSum(q) == IF q = <<>> THEN Rational(0, 1) ELSE RatAdd(Head(q), RatSum(Tail(q)))
RECURSIVE RatProd(_)
RatProd(q) == IF q = <<>> THEN Rational(1, 1) ELSE RatMul(Head(q), RatProd(Tail(q)))
\* np.mean of an array that is not empty
Mean(q) == RatDiv(RatSum(q), Rational(Len(q), 1))

\* lines 86-88: the mean of the squares of min(r, 0), whose root is dd
DownsideSquares(r) ==
    [k \in 1..Len(r) |-> LET d == RatMin(r[k], Rational(0, 1)) IN RatMul(d, d)]

\* lines 84-97: (mu_excess / dd) * sqrt(periods_per_year), kept as
\* mu_excess * sqrt(periods_per_year / mean(downside ** 2))
sortino_ratio_Unguarded(r, ppy) ==
    IF r = <<>> THEN NaN
    ELSE IF Mean(DownsideSquares(r)).num > 0
    THEN SqrtTerm(Mean(r), RatDiv(ppy, Mean(DownsideSquares(r))))
    ELSE IF Mean(r).num > 0 THEN Inf ELSE Zero
sortino_ratio(r, ppy) ==
    IF Len(r) > 1
    THEN IF Mean(DownsideSquares(r)).num > 0
         THEN SqrtTerm(Mean(r), RatDiv(ppy, Mean(DownsideSquares(r))))
         ELSE IF Mean(r).num > 0 THEN Inf ELSE Zero
    ELSE Zero

\* base ** exponent - 1.0 on Python floats: real unless the base is negative
\* and the exponent has a fractional part
PowMinusOne(base, exponent) ==
    IF base.num < 0 /\ exponent.den # 1
    THEN ComplexGrowth(base, exponent)
    ELSE Growth(base, exponent)

\* lines 101-112
cagr(results, r, ppy) ==
    IF PeriodKnown(results)
    THEN PowMinusOne(RatAdd(Rational(1, 1), Rational(net_pnl_pct(results), 100)),
                     RatDiv(Rational(DaysPerYear, 1), n_days(results)))
    ELSE IF Len(r) > 0
    THEN PowMinusOne(RatProd([k \in 1..Len(r) |-> RatAdd(Rational(1, 1), r[k])]),
                     RatDiv(ppy, Rational(Len(r), 1)))
    ELSE Zero

\* lines 117-120: np.cumprod, np.maximum.accumulate and the drawdowns
cumulative(r) == [k \in 1..Len(r) |-> RatProd([m \in 1..k |-> RatAdd(Rational(1, 1), r[m])])]
RECURSIVE MaxOf(_)
MaxOf(q) == IF Len(q) = 1 THEN q[1] ELSE RatMax(Head(q), MaxOf(Tail(q)))
RECURSIVE MinOf(_)
MinOf(q) == IF Len(q) = 1 THEN q[1] ELSE RatMin(Head(q), MinOf(Tail(q)))
running_max(r) == [k \in 1..Len(r) |-> MaxOf(SubSeq(cumulative(r), 1, k))]
drawdowns(r) ==
    [k \in 1..Len(r) |->
        RatDiv(RatSub(cumulative(r)[k], running_max(r)[k]), running_max(r)[k])]

\* lines 115-128: results["max_drawdown_pct"] is not read
max_dd(results, r) ==
    IF Len(r) > 1
    THEN MinOf(drawdowns(r))
    ELSE IF Len(r) = 1 /\ r[1].num < 0
    THEN r[1]
    ELSE Rational(0 - 1, 100)

\* `cagr > 0` for a real cagr and a positive exponent: base ** exponent > 1
Positive(growth) ==
    /\ growth.kind = "growth"
    /\ \/ RatLess(Rational(1, 1), growth.base)
       \/ /\ RatLess(growth.base, Rational(0 - 1, 1))
          /\ growth.exponent.den = 1
          /\ growth.exponent.num % 2 = 0

\* lines 131-136: a complex cagr divides, but `cagr > 0` on it is a TypeError
calmar_ratio(growth, drawdown) ==
    IF drawdown.num < 0
    THEN IF growth.kind = "complex"
         THEN ComplexGrowth(growth.base, growth.exponent)
         ELSE Quotient(growth, RatAbs(drawdown))
    ELSE IF growth.kind = "complex" THEN Raised("TypeError")
    ELSE IF Positive(growth) THEN Inf ELSE Zero

\* lines 139-143: np.isfinite(sharpe_ratio) holds for every sharpe_ratio above
result(sharpe, sortino, calmar) ==
    [sharpe_ratio |-> sharpe, sortino_ratio |-> sortino, calmar_ratio |-> calmar]

\* lines 149-156: `except Exception` answers with three zeros
except_Exception_Propagates(e) == e
except_Exception(e) ==
    [sharpe_ratio |-> Zero, sortino_ratio |-> Zero, calmar_ratio |-> Zero]

\* a call: its arguments, then the locals r and max_dd, the exception the
\* handler caught if there was one, and the value returned
NoCall == [phase |-> "idle"]
Called(results, executors) ==
    [phase |-> "called", results |-> results, executors |-> executors]
Returned(results, executors) ==
    LET r == r_list(results, executors)
        ppy == periods_per_year(results, r)
        calmar == calmar_ratio(cagr(results, r, ppy), max_dd(results, r))
    IN  [phase     |-> "returned",
         results   |-> results,
         executors |-> executors,
         r         |-> r,
         max_dd    |-> max_dd(results, r),
         caught    |-> IF calmar.kind = "raised" THEN <<calmar.exception>> ELSE None,
         ratios    |-> IF calmar.kind = "raised"
                       THEN except_Exception(calmar)
                       ELSE result(sharpe_ratio(results), sortino_ratio(r, ppy), calmar)]

Init ==
    /\ active_tasks = {}
    /\ rec = <<>>
    /\ cfg = <<>>
    /\ configs = <<>>
    /\ orch = <<>>
    /\ pc = <<>>
    /\ outcome = <<>>
    /\ semaphore = <<>>
    /\ launched = <<>>
    /\ deleted = {}
    /\ response = NoResponse
    /\ ratios_call = NoCall
    /\ now = 0
    /\ credentials = NoCredentials

Created == DOMAIN rec

\* configurations submitted so far: task ids are handed out as 1, 2, ...
RECURSIVE SumTotals(_)
SumTotals(k) == IF k = 0 THEN 0 ELSE cfg[k].n + SumTotals(k - 1)

(* ---- POST /run-batch-backtesting + start_batch_backtesting ----------- *)
\* A rejected request (HTTP 400) changes nothing.  An accepted one takes the
\* next uuid, stores the pending record and schedules the orchestrator; the
\* notification awaited before the answer never raises, and the answer is
\* built from the request and the task_id alone.
SubmitRequest(n, mc) ==
    IF ~Accepted(n)
    THEN /\ response' = Exchange("run", n, 400, 0)
         /\ UNCHANGED <<state, ratios_call, now, credentials>>
    ELSE LET task_id == Cardinality(Created) + 1 IN
         /\ task_id \in TaskIds
         /\ active_tasks' = active_tasks \cup {task_id}
         /\ rec' = rec @@ (task_id :> NewResult(task_id, n))
         /\ cfg' = cfg @@ (task_id :> [n |-> n, max_concurrent |-> mc])
         /\ configs' = configs @@ (task_id :> [i \in 0..(n - 1) |-> SubmittedConfig(i)])
         /\ orch' = orch @@ (task_id :> "scheduled")
         /\ pc' = pc @@ (task_id :> [i \in 0..(n - 1) |-> "not_created"])
         /\ outcome' = outcome @@ (task_id :> [i \in 0..(n - 1) |-> "none"])
         /\ semaphore' = semaphore @@ (task_id :> 0)
         /\ launched' = launched @@ (task_id :> [i \in 0..(n - 1) |-> 0])
         /\ response' = Exchange("run", n, 200, task_id)
         /\ UNCHANGED <<deleted, ratios_call, now, credentials>>

\* an accepted request stays within the number of configurations of a run
WithinUnits(n, units) == Accepted(n) => SumTotals(Cardinality(Created)) + n <= units

run_batch_backtesting(n, mc) ==
    /\ WithinUnits(n, MaxUnits)
    /\ SubmitRequest(n, mc)

\* the same request with max_concurrent left out
run_batch_backtesting_default(n) ==
    /\ WithinUnits(n, MaxDefaultUnits)
    /\ SubmitRequest(n, None)

(* ---- _execute_batch_backtesting, up to the await of gather ----------- *)
\* Line 46 raises KeyError when the record is gone; line 50 raises ValueError
\* for a negative initial value.  Either ends the coroutine.
OrchestratorStart(j) ==
    /\ j \in Created
    /\ orch[j] = "scheduled"
    /\ IF KeyError(active_tasks, j)
       THEN /\ orch' = [orch EXCEPT ![j] = "crashed"]
            /\ UNCHANGED <<rec, pc, semaphore>>
       ELSE IF SemaphoreInit(cfg[j].max_concurrent) < 0
       THEN /\ rec' = [rec EXCEPT ![j] = StartedRecord(@)]
            /\ orch' = [orch EXCEPT ![j] = "crashed"]
            /\ UNCHANGED <<pc, semaphore>>
       ELSE /\ rec' = [rec EXCEPT ![j] = StartedRecord(@)]
            /\ semaphore' = [semaphore EXCEPT ![j] = SemaphoreInit(cfg[j].max_concurrent)]
            /\ pc' = [pc EXCEPT ![j] = [i \in Indices(j) |-> "waiting"]]
            /\ orch' = [orch EXCEPT ![j] = "gathering"]
    /\ active_tasks' = RegistryAfter(active_tasks, j)
    /\ response' = NoResponse
    /\ UNCHANGED <<ratios_call, now, credentials>>
    /\ UNCHANGED <<cfg, configs, outcome, launched, deleted>>

(* ---- a unit of work, from gate admission to its first suspension ----- *)
\* `async with semaphore` admits the unit when a permit is free.  The unit
\* tasks are created in index order and asyncio runs ready tasks and wakes
\* semaphore waiters first-in first-out, so units are admitted in index order.
\* Line 97 raises KeyError when the record is gone (the permit is given back
\* and the exception is kept by gather).  Preparing the controller
\* configuration (lines 100-117) may fail, which the handler at 148-157
\* records.  Otherwise the unit suspends in run_backtesting holding its permit.
UnitAdmit(j, i) ==
    /\ j \in Created
    /\ i \in Indices(j)
    /\ pc[j][i] = "waiting"
    /\ \A k \in Indices(j) : k < i => pc[j][k] # "waiting"
    /\ CanAcquire(semaphore[j])
    /\ \/ /\ KeyError(active_tasks, j)
          /\ pc' = [pc EXCEPT ![j][i] = "done"]
          /\ outcome' = [outcome EXCEPT ![j][i] = "lookup_failed"]
          /\ UNCHANGED <<rec, semaphore, configs>>
       \/ /\ ~KeyError(active_tasks, j)
          /\ pc' = [pc EXCEPT ![j][i] = "done"]
          /\ outcome' = [outcome EXCEPT ![j][i] = "prepare_failed"]
          /\ configs' = [configs EXCEPT ![j][i] = ConfigAfterClean(@)]
          /\ rec' = [rec EXCEPT ![j] = UpdateProgress(CommitError(@, i, "prepare error"))]
          /\ UNCHANGED semaphore
       \/ /\ ~KeyError(active_tasks, j)
          /\ pc' = [pc EXCEPT ![j][i] = "in_evaluator"]
          /\ semaphore' = [semaphore EXCEPT ![j] = @ - 1]
          /\ configs' = [configs EXCEPT ![j][i] = ConfigAfterClean(@)]
          /\ UNCHANGED <<rec, outcome>>
    /\ launched' = [launched EXCEPT ![j][i] = @ + 1]
    /\ active_tasks' = RegistryAfter(active_tasks, j)
    /\ response' = NoResponse
    /\ UNCHANGED <<ratios_call, now, credentials>>
    /\ UNCHANGED <<cfg, orch, deleted>>

(* ---- a unit of work, from the return of run_backtesting to its end --- *)
\* The Evaluator returns a non-empty dict ("ok"), returns something else
\* ("invalid") or raises ("raised").  The unit writes to the record object it
\* looked up at admission, whether or not it is still registered.
UnitFinish(j, i, o) ==
    /\ j \in Created
    /\ i \in Indices(j)
    /\ pc[j][i] = "in_evaluator"
    /\ rec' = [rec EXCEPT ![j] = UpdateProgress(CommitOutcome(@, i, o))]
    /\ outcome' = [outcome EXCEPT ![j][i] = o]
    /\ pc' = [pc EXCEPT ![j][i] = EndOfUnit(o)]
    /\ semaphore' = [semaphore EXCEPT ![j] = release(@, o)]
    /\ active_tasks' = RegistryAfter(active_tasks, j)
    /\ response' = NoResponse
    /\ UNCHANGED <<ratios_call, now, credentials>>
    /\ UNCHANGED <<cfg, configs, orch, launched, deleted>>

(* ---- _execute_batch_backtesting, after gather ------------------------ *)
OrchestratorFinish(j) ==
    /\ j \in Created
    /\ orch[j] = "gathering"
    /\ AllDone(j)
    /\ rec' = [rec EXCEPT ![j].status = FinalStatus(rec[j]),
                          ![j].progress_percentage = Fraction(100, 1)]
    /\ orch' = [orch EXCEPT ![j] = "done"]
    /\ active_tasks' = RegistryAfter(active_tasks, j)
    /\ response' = NoResponse
    /\ UNCHANGED <<ratios_call, now, credentials>>
    /\ UNCHANGED <<cfg, configs, pc, outcome, semaphore, launched, deleted>>

(* ---- GET /batch-backtesting-status/{task_id} -------------------------- *)
\* Reads the record and answers; an unknown id is answered 404.
get_batch_backtesting_status(task_id) ==
    /\ response' = IF NotFound(get_task_status(task_id))
                   THEN Exchange("status", task_id, 404, 0)
                   ELSE Exchange("status", task_id, 200, get_task_status(task_id)[1].task_id)
    /\ UNCHANGED <<state, ratios_call, now, credentials>>

(* ---- GET /batch-backtesting-results/{task_id} ------------------------- *)
\* Reads the record and answers with a projection of its results, each the
\* dict run_backtesting returned; an unknown id is answered 404.
get_batch_backtesting_results(task_id) ==
    /\ response' = IF NotFound(get_task_status(task_id))
                   THEN Exchange("results", task_id, 404, 0)
                   ELSE Exchange("results", task_id, 200, get_task_status(task_id)[1].task_id)
    /\ UNCHANGED <<state, ratios_call, now, credentials>>

(* ---- DELETE /batch-backtesting-tasks/{task_id} ------------------------ *)
\* An unknown id is answered 404 and changes nothing.
delete_batch_backtesting_task(task_id) ==
    IF NotFound(get_task_status(task_id))
    THEN /\ response' = Exchange("delete", task_id, 404, 0)
         /\ UNCHANGED <<state, ratios_call, now, credentials>>
    ELSE /\ active_tasks' = Removed(active_tasks, task_id)
         /\ response' = Exchange("delete", task_id, 200, task_id)
         /\ deleted' = deleted \cup {task_id}
         /\ UNCHANGED <<rec, cfg, configs, orch, pc, outcome, semaphore, launched, ratios_call, now, credentials>>

EvaluatorOutcomes == {"ok", "invalid", "raised"}

(* ---- cleanup_completed_tasks(max_age_hours) ----------------------------- *)
\* lines 191-194: the age of the last result of a record that has results.
\* Its timestamp was written by datetime.now().isoformat() (line 133), so
\* it is not empty and fromisoformat reads it back: the handler on lines
\* 197-199 is not entered.
age_hours(r) == now - r.results[Len(r.results)].timestamp

\* lines 186-199: records without results are passed over
tasks_to_remove_AnyStatus(max_age_hours) ==
    {task_id \in active_tasks :
        /\ rec[task_id].results # <<>>
        /\ age_hours(rec[task_id]) > max_age_hours}
tasks_to_remove(max_age_hours) ==
    {task_id \in active_tasks :
        /\ rec[task_id].status \in {"completed", "failed"}
        /\ rec[task_id].results # <<>>
        /\ age_hours(rec[task_id]) > max_age_hours}

\* The method runs without suspending; it is a call on the service, which
\* `response` records with the method's name and argument.
cleanup_completed_tasks(max_age_hours) ==
    /\ active_tasks' = active_tasks \ tasks_to_remove(max_age_hours)
    /\ response' = Exchange("cleanup", max_age_hours, 0, 0)
    /\ UNCHANGED <<rec, cfg, configs, orch, pc, outcome, semaphore, launched, deleted>>
    /\ UNCHANGED <<ratios_call, now, credentials>>

(* ---- the clock ---------------------------------------------------------- *)
\* an hour passes
Tick ==
    /\ now < MaxHours
    /\ now' = now + 1
    /\ response' = NoResponse
    /\ UNCHANGED <<state, ratios_call, credentials>>

(* ---- calculate_performance_ratios(results, executors) ------------------ *)
\* The function runs from its call to its return without suspending.
calculate_performance_ratios ==
    /\ ratios_call.phase = "called"
    /\ ratios_call' = Returned(ratios_call.results, ratios_call.executors)
    /\ UNCHANGED <<state, response, now, credentials>>

\* max_concurrent is not read when the submission is rejected, so rejected
\* submissions are drawn with one value of it.
Next ==
    \/ \E n \in ConfigCounts :
          \E mc \in (IF Accepted(n) THEN MaxConcurrentValues ELSE {None}) :
              run_batch_backtesting(n, mc)
    \/ \E j \in TaskIds : OrchestratorStart(j)
    \/ \E j \in TaskIds, i \in 0..(MaxConfigs - 1) : UnitAdmit(j, i)
    \/ \E j \in TaskIds, i \in 0..(MaxConfigs - 1), o \in EvaluatorOutcomes : UnitFinish(j, i, o)
    \/ \E j \in TaskIds : OrchestratorFinish(j)
    \/ \E j \in TaskIds : get_batch_backtesting_status(j)
    \/ \E j \in TaskIds : get_batch_backtesting_results(j)
    \/ \E j \in TaskIds : delete_batch_backtesting_task(j)

Spec == Init /\ [][Next]_vars

\* every step of a batch's own coroutines: the event loop runs every ready
\* task, and every Evaluator call is assumed to return or raise
JobStep(j) ==
    \/ OrchestratorStart(j)
    \/ \E i \in 0..(MaxConfigs - 1) : UnitAdmit(j, i)
    \/ \E i \in 0..(MaxConfigs - 1), o \in EvaluatorOutcomes : UnitFinish(j, i, o)
    \/ OrchestratorFinish(j)

FairSpec == Spec /\ \A j \in TaskIds : WF_vars(JobStep(j))

(* ---- batches submitted with default settings ---------------------------- *)
\* Every submission is accepted and leaves max_concurrent out; the batches
\* run to their end and no other request is made.
DefaultNext ==
    \/ \E n \in 1..MaxConfigs : run_batch_backtesting_default(n)
    \/ \E j \in TaskIds : OrchestratorStart(j)
    \/ \E j \in TaskIds, i \in 0..(MaxConfigs - 1) : UnitAdmit(j, i)
    \/ \E j \in TaskIds, i \in 0..(MaxConfigs - 1), o \in EvaluatorOutcomes : UnitFinish(j, i, o)
    \/ \E j \in TaskIds : OrchestratorFinish(j)

DefaultSpec == Init /\ [][DefaultNext]_vars

(* ---- routers/accounts.py: connector credentials ------------------------- *)
\* AccountsService.add_credentials either stores the credentials and
\* returns, or raises: before it stored anything, or after it stored them.
AddCredentialsOutcomes == {"stored", "raised_before_store", "raised_after_store"}
add_credentials(store, account_name, connector_name, value, o) ==
    IF o = "raised_before_store"
    THEN store
    ELSE [store EXCEPT ![<<account_name, connector_name>>] = <<value>>]

\* AccountsService.delete_credentials removes what is stored for the
\* connector and raises FileNotFoundError when nothing is
delete_credentials(store, account_name, connector_name) ==
    [store EXCEPT ![<<account_name, connector_name>>] = None]
FileNotFoundError(store, account_name, connector_name) ==
    store[<<account_name, connector_name>>] = None

\* POST /add-credential/{account_name}/{connector_name}, lines 116-137: 201
\* when add_credentials returns; otherwise the handler calls
\* delete_credentials and answers 400, or the FileNotFoundError of that call
\* leaves the handler (500).
add_credential(account_name, connector_name, value, o) ==
    LET added == add_credentials(credentials, account_name, connector_name, value, o) IN
    /\ IF o = "stored"
       THEN /\ credentials' = added
            /\ response' = Exchange("add_credential", <<account_name, connector_name>>, 201, 0)
       ELSE IF FileNotFoundError(added, account_name, connector_name)
       THEN /\ credentials' = added
            /\ response' = Exchange("add_credential", <<account_name, connector_name>>, 500, 0)
       ELSE /\ credentials' = delete_credentials(added, account_name, connector_name)
            /\ response' = Exchange("add_credential", <<account_name, connector_name>>, 400, 0)
    /\ UNCHANGED <<state, ratios_call, now>>

\* POST /delete-credential/{account_name}/{connector_name}, lines 94-113
delete_credential(account_name, connector_name) ==
    /\ IF FileNotFoundError(credentials, account_name, connector_name)
       THEN /\ response' = Exchange("delete_credential", <<account_name, connector_name>>, 404, 0)
            /\ UNCHANGED credentials
       ELSE /\ credentials' = delete_credentials(credentials, account_name, connector_name)
            /\ response' = Exchange("delete_credential", <<account_name, connector_name>>, 200, 0)
    /\ UNCHANGED <<state, ratios_call, now>>

CredentialsNext ==
    \/ \E account_name \in Accounts, connector_name \in Connectors,
          value \in CredentialsValues, o \in AddCredentialsOutcomes :
              add_credential(account_name, connector_name, value, o)
    \/ \E account_name \in Accounts, connector_name \in Connectors :
              delete_credential(account_name, connector_name)

(* ---- the service with its clock and cleanup ----------------------------- *)
\* Batches are submitted with max_concurrent left out, run while hours pass,
\* and are deleted on request or by cleanup_completed_tasks.
CleanupNext ==
    \/ \E n \in 1..MaxConfigs : run_batch_backtesting(n, None)
    \/ \E j \in TaskIds : OrchestratorStart(j)
    \/ \E j \in TaskIds, i \in 0..(MaxConfigs - 1) : UnitAdmit(j, i)
    \/ \E j \in TaskIds, i \in 0..(MaxConfigs - 1), o \in EvaluatorOutcomes : UnitFinish(j, i, o)
    \/ \E j \in TaskIds : OrchestratorFinish(j)
    \/ \E j \in TaskIds : delete_batch_backtesting_task(j)
    \/ \E max_age_hours \in 0..MaxAgeHours : cleanup_completed_tasks(max_age_hours)
    \/ Tick

CleanupSpec == Init /\ [][CleanupNext]_vars

(* ---- the credentials endpoints on their own ------------------------------- *)
CredentialsSpec == Init /\ [][CredentialsNext]_vars

(* ---- the ratio engine on its own ---------------------------------------- *)
\* The service is idle; one call of the engine with arguments drawn from the
\* bundles and the executor lists above.
RatioInit ==
    /\ active_tasks = {}
    /\ rec = <<>>
    /\ cfg = <<>>
    /\ configs = <<>>
    /\ orch = <<>>
    /\ pc = <<>>
    /\ outcome = <<>>
    /\ semaphore = <<>>
    /\ launched = <<>>
    /\ deleted = {}
    /\ response = NoResponse
    /\ now = 0
    /\ credentials = NoCredentials
    /\ \E results \in ResultBundles, executors \in ExecutorLists :
          ratios_call = Called(results, executors)

RatioNext == calculate_performance_ratios

RatioSpec == RatioInit /\ [][RatioNext]_vars

(* ======================================================================= *)
(* Properties                                                              *)
(* ======================================================================= *)
Max(a, b) == IF a >= b THEN a ELSE b

Processed(j) == rec[j].completed_configs + rec[j].failed_configs
IsTerminal(j) == rec[j].status \in Terminal

\* the config_index of every record of a job, results first, in list order
ResultIndexSeq(j) == [k \in 1..Len(rec[j].results) |-> rec[j].results[k].config_index]
ErrorIndexSeq(j) == [k \in 1..Len(rec[j].errors) |-> rec[j].errors[k].config_index]
ResultIndices(j) == {ResultIndexSeq(j)[k] : k \in 1..Len(rec[j].results)}
ErrorIndices(j) == {ErrorIndexSeq(j)[k] : k \in 1..Len(rec[j].errors)}
NoDuplicates(q) == \A a, b \in 1..Len(q) : a # b => q[a] # q[b]

\* the indices whose unit did not end with a valid Evaluator result
FailedUnits(j) == {i \in Indices(j) : outcome[j][i] \in {"invalid", "raised", "prepare_failed"}}

C2_CountsBounded ==
    /\ [](\A j \in Created : Processed(j) <= rec[j].total_configs)
    /\ [][\A j \in Created : rec'[j].total_configs = rec[j].total_configs]_vars

\* a job whose three units all ended, some with a result and some with an error
C2_Witness ==
    \E j \in Created :
        /\ rec[j].total_configs = 3
        /\ rec[j].completed_configs > 0
        /\ rec[j].failed_configs > 0
        /\ Processed(j) = 3

(* ---- C3 ---------------------------------------------------------------- *)
\* C3: every job of the registry whose status is completed or failed has
\* completed + failed = total.
C3_TerminalAllCounted ==
    \A j \in active_tasks : IsTerminal(j) => Processed(j) = rec[j].total_configs

\* a registered job is terminal after a partial failure, while another job
\* was deleted from the registry during its run
C3_Witness ==
    \E j \in active_tasks :
        /\ IsTerminal(j)
        /\ rec[j].completed_configs = 1
        /\ rec[j].failed_configs = 1
        /\ \E k \in Created \ active_tasks : outcome[k][0] = "lookup_failed"

(* ---- C4 ---------------------------------------------------------------- *)
\* C4: in every reachable state no config_index occurs twice in the results
\* list followed by the errors list of a job.
C4_IndexAtMostOnce ==
    \A j \in Created : NoDuplicates(ResultIndexSeq(j) \o ErrorIndexSeq(j))

\* a job that holds two results and an error
C4_Witness ==
    \E j \in Created : Len(rec[j].results) = 2 /\ Len(rec[j].errors) = 1

(* ---- C5 ---------------------------------------------------------------- *)
\* C5: when a job of the registry is terminal, every index 0..N-1 is the
\* config_index of one of its results or errors.
C5_TerminalCoversAllIndices ==
    \A j \in active_tasks :
        IsTerminal(j) => Indices(j) \subseteq ResultIndices(j) \cup ErrorIndices(j)

\* a terminal registered job of three configurations whose units ended in a
\* preparation failure, an invalid result and an Evaluator exception
C5_Witness ==
    \E j \in active_tasks :
        /\ IsTerminal(j)
        /\ cfg[j].n = 3
        /\ {outcome[j][i] : i \in Indices(j)} = {"prepare_failed", "invalid", "raised"}

(* ---- C6 ---------------------------------------------------------------- *)
\* C6: when a job of the registry is terminal, index i is in results exactly
\* when its Evaluator call returned a valid result and in errors exactly when
\* its unit failed; completed = N - |F|, failed = |F|, and the status is
\* completed whenever |F| < N.
C6_FailuresIsolated ==
    \A j \in active_tasks :
        IsTerminal(j) =>
            /\ \A i \in Indices(j) :
                  /\ i \in ResultIndices(j) <=> outcome[j][i] = "ok"
                  /\ i \in ErrorIndices(j) <=> i \in FailedUnits(j)
            /\ rec[j].completed_configs = cfg[j].n - Cardinality(FailedUnits(j))
            /\ rec[j].failed_configs = Cardinality(FailedUnits(j))
            /\ Cardinality(FailedUnits(j)) < cfg[j].n => rec[j].status = "completed"

\* three configurations under cap 2, only index 1 failing: completed = 2,
\* failed = 1, status completed
C6_Witness ==
    \E j \in active_tasks :
        /\ cfg[j] = [n |-> 3, max_concurrent |-> <<2>>]
        /\ FailedUnits(j) = {1}
        /\ rec[j].status = "completed"
        /\ rec[j].completed_configs = 2
        /\ rec[j].failed_configs = 1
        /\ ResultIndices(j) = {0, 2}
        /\ ErrorIndices(j) = {1}

(* ---- C7 ---------------------------------------------------------------- *)
\* C7: with fair scheduling and Evaluator calls that always return or raise,
\* every accepted submission that stays in the registry eventually has status
\* completed or failed.
C7_EventuallyTerminal ==
    \A j \in TaskIds :
        [](j \in active_tasks => <>(j \notin active_tasks \/ IsTerminal(j)))

\* C7 for the submissions whose max_concurrent is None or not negative
C7_NonNegativeEventuallyTerminal ==
    \A j \in TaskIds :
        []((j \in active_tasks /\ OrDefault(cfg[j].max_concurrent) >= 0)
              => <>(j \notin active_tasks \/ IsTerminal(j)))

\* a registered batch submitted with max_concurrent = -1 whose orchestrator
\* ended on the ValueError of asyncio.Semaphore(-1)
C7_StuckRunning ==
    \E j \in active_tasks :
        /\ cfg[j].max_concurrent = <<-1>>
        /\ orch[j] = "crashed"
        /\ rec[j].status = "running"

(* ---- C8 ---------------------------------------------------------------- *)
\* C8: a record is created pending, and every step leaves its status alone
\* or moves it from pending to running or from running to completed or
\* failed; so a terminal status never changes again.
C8_StatusLifecycle ==
    [][/\ \A j \in Created' \ Created : rec'[j].status = "pending"
       /\ \A j \in Created :
             \/ rec'[j].status = rec[j].status
             \/ rec[j].status = "pending" /\ rec'[j].status = "running"
             \/ rec[j].status = "running" /\ IsTerminal(j)']_vars

\* a job that went all the way to failed and one that went to completed
C8_Witness ==
    /\ \E j \in Created : rec[j].status = "failed" /\ orch[j] = "done"
    /\ \E j \in Created : rec[j].status = "completed" /\ orch[j] = "done"

(* ---- C9 ---------------------------------------------------------------- *)
\* C9: a terminal job of the registry is failed if and only if its completed
\* counter is 0, and completed otherwise.
C9_FailedIffNoneCompleted ==
    \A j \in active_tasks :
        IsTerminal(j) =>
            /\ rec[j].status = "failed" <=> rec[j].completed_configs = 0
            /\ rec[j].status = "completed" <=> rec[j].completed_configs > 0

\* one registered job completed with a failed item, another failed with none
\* completed
C9_Witness ==
    /\ \E j \in active_tasks :
          /\ rec[j].status = "completed"
          /\ rec[j].failed_configs > 0
    /\ \E j \in active_tasks :
          /\ rec[j].status = "failed"
          /\ rec[j].completed_configs = 0

(* ---- C10 --------------------------------------------------------------- *)
\* C10: no job is completed or failed while one of its units still waits for
\* the gate or is inside run_backtesting.
C10_TerminalOnlyAfterAllUnits ==
    \A j \in Created : IsTerminal(j) => Unfinished(j) = {}

\* a terminal job of three configurations that ran under cap 1, so that two
\* units had to wait for the gate
C10_Witness ==
    \E j \in Created :
        /\ IsTerminal(j)
        /\ cfg[j] = [n |-> 3, max_concurrent |-> <<1>>]
        /\ \A i \in Indices(j) : outcome[j][i] \in EvaluatorOutcomes

(* ---- C11 --------------------------------------------------------------- *)
\* the status query for job j was answered with the record as it is now
Observed(j) == response = Exchange("status", j, 200, j)

\* a <= b for two fractions with positive denominators
FractionLeq(a, b) == a.num * b.den <= b.num * a.den

\* C11: whenever a status query shows a job with completed + failed equal to
\* total, the status it shows is completed or failed, never pending or
\* running.
C11_AllCountedOnlyWhenTerminal ==
    \A j \in TaskIds :
        Observed(j) /\ Processed(j) = rec[j].total_configs => IsTerminal(j)

(* ---- C12 --------------------------------------------------------------- *)
\* C12: no step lowers the progress percentage of a job, whatever the order
\* in which its units finish.
C12_ProgressNeverDecreases ==
    [][\A j \in Created :
          FractionLeq(rec[j].progress_percentage, rec'[j].progress_percentage)]_vars

\* a job of three configurations whose units finished out of index order,
\* with a failure after a success, seen at an intermediate percentage
C12_Witness ==
    \E j \in Created :
        /\ cfg[j].n = 3
        /\ Len(rec[j].results) = 1 /\ Len(rec[j].errors) = 1
        /\ rec[j].results[1].config_index = 1
        /\ rec[j].errors[1].config_index = 0
        /\ rec[j].progress_percentage = Fraction(200, 3)

(* ---- C13 --------------------------------------------------------------- *)
\* C13: in every state a status query shows, progress * total equals
\* 100 * (completed + failed); the percentage is the exact ratio here, the
\* code holds its nearest double.
C13_ProgressIsRatio ==
    \A j \in TaskIds :
        Observed(j) =>
            rec[j].progress_percentage.num * rec[j].total_configs
                = 100 * Processed(j) * rec[j].progress_percentage.den

\* a status query shows one of three items counted, at a percentage that is
\* neither 0 nor 100
C13_Witness ==
    \E j \in TaskIds :
        /\ Observed(j)
        /\ rec[j].total_configs = 3
        /\ Processed(j) = 1
        /\ rec[j].progress_percentage = Fraction(100, 3)

(* ---- C14 --------------------------------------------------------------- *)
\* C14: in every state a status query shows, results holds as many records
\* as completed_configs counts and errors as many as failed_configs counts.
C14_ListsMatchCounters ==
    \A j \in TaskIds :
        Observed(j) =>
            /\ Len(rec[j].results) = rec[j].completed_configs
            /\ Len(rec[j].errors) = rec[j].failed_configs

\* a status query shows a job while one unit is inside run_backtesting, after
\* two units that ran together have both committed
C14_Witness ==
    \E j \in TaskIds :
        /\ Observed(j)
        /\ cfg[j].max_concurrent = <<2>>
        /\ rec[j].completed_configs = 2
        /\ InFlight(j) # {}

(* ---- C15 --------------------------------------------------------------- *)
\* C15: the unit of each index enters _execute_single_backtesting at most
\* once, and has entered it exactly once when _execute_batch_backtesting has
\* returned from gather and finished.
C15_EachIndexLaunchedOnce ==
    \A j \in Created :
        \A i \in Indices(j) :
            /\ launched[j][i] <= 1
            /\ orch[j] = "done" => launched[j][i] = 1

\* the orchestrator of a job of three configurations under cap 1 has
\* finished; one unit failed before the Evaluator, one inside it, one
\* succeeded
C15_Witness ==
    \E j \in Created :
        /\ orch[j] = "done"
        /\ cfg[j] = [n |-> 3, max_concurrent |-> <<1>>]
        /\ \E a, b, c \in Indices(j) :
              /\ outcome[j][a] = "prepare_failed"
              /\ outcome[j][b] = "raised"
              /\ outcome[j][c] = "ok"

(* ---- C16 --------------------------------------------------------------- *)
\* C16: in the state in which start_batch_backtesting hands back a new
\* task_id, the registry holds the record of that id: pending, total_configs
\* the number of configurations submitted, both counters 0, progress 0, no
\* results, no errors; the orchestrator is only scheduled and none of the
\* job's units has been entered or is inside run_backtesting.
C16_SubmitReturnsPendingJob ==
    [][\A j \in Created' \ Created :
          /\ response' = Exchange("run", rec'[j].total_configs, 200, j)
          /\ j \in active_tasks'
          /\ rec'[j].task_id = j
          /\ rec'[j].status = "pending"
          /\ rec'[j].total_configs = cfg'[j].n
          /\ rec'[j].completed_configs = 0
          /\ rec'[j].failed_configs = 0
          /\ rec'[j].progress_percentage = Fraction(0, 1)
          /\ rec'[j].results = <<>>
          /\ rec'[j].errors = <<>>
          /\ orch'[j] = "scheduled"
          /\ \A i \in DOMAIN launched'[j] :
                launched'[j][i] = 0 /\ pc'[j][i] # "in_evaluator"]_vars

\* a submission of two configurations has just been answered with its
\* task_id while a unit of an earlier job is inside run_backtesting
C16_Witness ==
    \E j \in active_tasks :
        /\ response = Exchange("run", 2, 200, j)
        /\ rec[j].status = "pending"
        /\ rec[j].total_configs = 2
        /\ \E k \in active_tasks \ {j} : InFlight(k) # {}

(* ---- C17 --------------------------------------------------------------- *)
\* C17: a submission of no configuration, or of more than 1000, is answered
\* 400 by the step that receives it, and that step changes neither the
\* registry nor any record nor any coroutine: no job is created and no unit
\* is started.
C17_BadSubmissionRejected ==
    [][(/\ response'.endpoint = "run"
        /\ (response'.arg = 0 \/ response'.arg > MaxAllowedConfigs))
          => /\ response'.status_code = 400
             /\ response'.task_id = 0
             /\ UNCHANGED state]_vars

\* an oversized submission has just been rejected while a job is registered
\* and running
C17_Witness ==
    /\ response = Exchange("run", MaxAllowedConfigs + 1, 400, 0)
    /\ \E j \in active_tasks : rec[j].status = "running" /\ InFlight(j) # {}

(* ---- C18 --------------------------------------------------------------- *)
PathOperations == {"status", "results", "delete"}

\* C18: a status, results or delete request whose task_id is not in the
\* registry is answered 404, and the step changes neither the registry nor
\* any record.
C18_UnknownIdNotFound ==
    [][\A id \in TaskIds \ active_tasks :
          (response'.endpoint \in PathOperations /\ response'.arg = id)
              => /\ response'.status_code = 404
                 /\ UNCHANGED state]_vars

\* a results request for an id that was never handed out has just been
\* answered 404 while another job is registered
C18_Witness ==
    \E id \in TaskIds \ Created :
        /\ response = Exchange("results", id, 404, 0)
        /\ active_tasks # {}

(* ---- C19 --------------------------------------------------------------- *)
\* C19: once a delete of an id has been answered 200, every later status,
\* results or delete request for that id is answered 404.
C19_DeletedStaysNotFound ==
    [][\A id \in deleted :
          (response'.endpoint \in PathOperations /\ response'.arg = id)
              => response'.status_code = 404]_vars

\* one job was deleted while pending (its orchestrator then failed at the
\* lookup), another while a unit waited for the gate; a second delete of the
\* latter has just been answered 404
C19_Witness ==
    \E a, b \in deleted :
        /\ rec[a].status = "pending" /\ orch[a] = "crashed"
        /\ \E i \in Indices(b) : outcome[b][i] = "lookup_failed"
        /\ response = Exchange("delete", b, 404, 0)

(* ---- C20 --------------------------------------------------------------- *)
\* C20: a step of a coroutine of a deleted job (a unit passing the gate, a
\* unit ending, the orchestrator ending) leaves the registry as it was: the
\* deleted id does not come back, no id leaves, and the record of every
\* other job is untouched.
C20_DeletedJobStepsAreDiscarded ==
    [][\A j \in deleted :
          (pc'[j] # pc[j] \/ orch'[j] # orch[j] \/ rec'[j] # rec[j])
              => /\ active_tasks' = active_tasks
                 /\ j \notin active_tasks'
                 /\ \A k \in Created \ {j} : rec'[k] = rec[k]]_vars

\* a job of two configurations was deleted with one unit inside
\* run_backtesting and one waiting; the first has since committed its result
\* to the unregistered record, the second failed at the lookup, and the
\* other job is still registered
C20_Witness ==
    \E j \in deleted :
        /\ cfg[j].n = 2
        /\ outcome[j][0] = "ok" /\ rec[j].completed_configs = 1
        /\ outcome[j][1] = "lookup_failed"
        /\ orch[j] = "done"
        /\ \E k \in active_tasks : rec[k].total_configs = 1

(* ---- C21 --------------------------------------------------------------- *)
\* the error records of job j that carry index i
ErrorsOf(j, i) == {k \in 1..Len(rec[j].errors) : rec[j].errors[k].config_index = i}

\* C21: a unit that failed while preparing its configuration left exactly
\* one error record for its index and no result, every error record is
\* counted once in failed_configs, the orchestrator went on to gather, and
\* the other indices keep what their own units did: a valid result stays a
\* result, an index whose unit has not ended has no record.
C21_PrepareFailureRecorded ==
    \A j \in Created :
        \A i \in Indices(j) :
            outcome[j][i] = "prepare_failed" =>
                /\ Cardinality(ErrorsOf(j, i)) = 1
                /\ \A k \in ErrorsOf(j, i) : rec[j].errors[k].error = "prepare error"
                /\ i \notin ResultIndices(j)
                /\ rec[j].failed_configs = Len(rec[j].errors)
                /\ orch[j] \in {"gathering", "done"}
                /\ \A m \in Indices(j) \ {i} :
                      /\ outcome[j][m] = "ok" =>
                            m \in ResultIndices(j) /\ m \notin ErrorIndices(j)
                      /\ outcome[j][m] = "none" =>
                            m \notin ResultIndices(j) /\ m \notin ErrorIndices(j)

\* index 0 failed in preparation while index 1 is inside run_backtesting and
\* index 2 still waits for the gate
C21_Witness ==
    \E j \in Created :
        /\ cfg[j].n = 3
        /\ outcome[j][0] = "prepare_failed"
        /\ pc[j][1] = "in_evaluator"
        /\ pc[j][2] = "waiting"
        /\ rec[j].failed_configs = 1

(* ---- C22 --------------------------------------------------------------- *)
\* C22: a unit whose run_backtesting returned something that is empty or not
\* a dict left exactly one error record for its index, saying "Invalid
\* backtesting results", and no result record, and failed_configs counts it.
C22_InvalidResultIsFailure ==
    \A j \in Created :
        \A i \in Indices(j) :
            outcome[j][i] = "invalid" =>
                /\ Cardinality(ErrorsOf(j, i)) = 1
                /\ \A k \in ErrorsOf(j, i) :
                      rec[j].errors[k].error = "Invalid backtesting results"
                /\ i \notin ResultIndices(j)
                /\ rec[j].failed_configs = Len(rec[j].errors)
                /\ rec[j].failed_configs >= 1

\* a job whose only Evaluator call returned an invalid result ended failed
\* with one error and no result
C22_Witness ==
    \E j \in active_tasks :
        /\ cfg[j].n = 1
        /\ outcome[j][0] = "invalid"
        /\ rec[j].status = "failed"
        /\ rec[j].failed_configs = 1
        /\ rec[j].results = <<>>

(* ---- C23 --------------------------------------------------------------- *)
\* C23: every result record of a batch was committed after
\* calculate_performance_ratios ran on the output of its Evaluator call.
C23_ResultsCarryEngineRatios ==
    \A j \in Created :
        \A k \in 1..Len(rec[j].results) : rec[j].results[k].ratio_engine

(* ---- C24 --------------------------------------------------------------- *)
\* C24: every result and error record carries the configuration submitted at
\* the position its config_index names, blanks included, and the objects of
\* batch_config.configs stay as submitted.
C24_ConfigEchoedVerbatim ==
    \A j \in Created :
        /\ \A i \in Indices(j) : configs[j][i] = SubmittedConfig(i)
        /\ \A k \in 1..Len(rec[j].results) :
              /\ rec[j].results[k].config_index \in Indices(j)
              /\ rec[j].results[k].config = SubmittedConfig(rec[j].results[k].config_index)
        /\ \A k \in 1..Len(rec[j].errors) :
              /\ rec[j].errors[k].config_index \in Indices(j)
              /\ rec[j].errors[k].config = SubmittedConfig(rec[j].errors[k].config_index)

\* a result for the dict at position 2 was committed before an error for the
\* dict at position 0, both of which cleaning would have changed, while the
\* unit of the yml path at position 1 failed in between
C24_Witness ==
    \E j \in Created :
        /\ cfg[j].n = 3
        /\ cleaned_config(SubmittedConfig(0)) # SubmittedConfig(0)
        /\ cleaned_config(SubmittedConfig(1)) = SubmittedConfig(1)
        /\ Len(rec[j].results) = 1 /\ rec[j].results[1].config_index = 2
        /\ Len(rec[j].errors) = 2
        /\ rec[j].errors[1].config_index = 1
        /\ rec[j].errors[2].config_index = 0
        /\ outcome[j][0] = "raised"

(* ---- C25 --------------------------------------------------------------- *)
\* the permits of the semaphore the orchestrator of job j made
EnforcedCap(j) == semaphore[j] + Cardinality(InFlight(j))

\* C25: a batch whose orchestrator made its semaphore runs under the
\* max_concurrent of the request when the request carries one and under 5
\* when it carries none, and the max_concurrent of the submit response is
\* that cap.
C25_CapIsCallersValue ==
    \A j \in Created :
        orch[j] \in {"gathering", "done"} =>
            /\ EnforcedCap(j) = IF cfg[j].max_concurrent = None
                                THEN DefaultConcurrent
                                ELSE cfg[j].max_concurrent[1]
            /\ ReportedMaxConcurrent(cfg[j].max_concurrent) = EnforcedCap(j)

(* ---- C26 --------------------------------------------------------------- *)
\* the value of a ratio is 0: the literal, a zero coefficient, or a growth of
\* base 1 (1 ** x - 1) over a drawdown
GrowthIsZero(g) == g = Zero \/ (g.kind = "growth" /\ g.base = Rational(1, 1))
IsZero(v) ==
    \/ v = Zero
    \/ (v.kind = "sqrt_term" /\ v.coef.num = 0)
    \/ (v.kind = "quotient" /\ GrowthIsZero(v.growth))

HasReturned == ratios_call.phase = "returned"

\* C26: called with no trade record and an aggregate return that is 0 or
\* missing, the engine returns 0 for Sharpe, Sortino and Calmar, with and
\* without a known period.
C26_NoTradesZeroReturn ==
    (/\ HasReturned
     /\ ratios_call.executors = <<>>
     /\ net_pnl_pct(ratios_call.results) = 0)
        => /\ IsZero(ratios_call.ratios.sharpe_ratio)
           /\ IsZero(ratios_call.ratios.sortino_ratio)
           /\ IsZero(ratios_call.ratios.calmar_ratio)

\* the engine returned for no trades, a zero return and a period of 10 days
\* taken from the timestamps: Sharpe is 0 / volatility, Calmar is
\* (1 ** 36.5 - 1) / 0.01
C26_Witness ==
    /\ HasReturned
    /\ ratios_call.executors = <<>>
    /\ ratios_call.results.net_pnl_pct = <<0>>
    /\ n_days(ratios_call.results) = Rational(10, 1)
    /\ ratios_call.r = <<>>
    /\ ratios_call.ratios.sharpe_ratio = SqrtTerm(Rational(0, 1), Rational(1, DaysPerYear))
    /\ ratios_call.ratios.sortino_ratio = Zero
    /\ ratios_call.ratios.calmar_ratio =
          Quotient(Growth(Rational(1, 1), Rational(73, 2)), Rational(1, 100))

(* ---- C27 --------------------------------------------------------------- *)
\* C27: when the bundle carries max_drawdown_pct, the drawdown of the Calmar
\* computation is |max_drawdown_pct| / 100.
C27_ExplicitDrawdownUsed ==
    (HasReturned /\ ratios_call.results.max_drawdown_pct # None)
        => RatAbs(ratios_call.max_dd)
              = Rational(Abs(ratios_call.results.max_drawdown_pct[1]), 100)

(* ---- C28 --------------------------------------------------------------- *)
\* C28: when there are trade records (each with a percentage), the series
\* has one element per record, in order, equal to the percentage over 100;
\* without trade records it is the aggregate return over 100 when that is
\* not 0, and empty when it is.
C28_SeriesOnePerTrade ==
    HasReturned =>
        LET executors == ratios_call.executors
            r == ratios_call.r
        IN  /\ (/\ executors # <<>>
                /\ \A k \in 1..Len(executors) : executors[k].net_pnl_pct # None)
                  => /\ Len(r) = Len(executors)
                     /\ \A k \in 1..Len(executors) :
                           r[k] = Rational(executors[k].net_pnl_pct[1], 100)
            /\ (executors = <<>> /\ net_pnl_pct(ratios_call.results) # 0)
                  => r = <<Rational(net_pnl_pct(ratios_call.results), 100)>>
            /\ (executors = <<>> /\ net_pnl_pct(ratios_call.results) = 0)
                  => r = <<>>

(* ---- C29 --------------------------------------------------------------- *)
\* C29: Sortino is 0 for a series of fewer than 2 elements; for a series of
\* 2 or more elements none of which is negative it is +infinity when the
\* mean is positive and 0 otherwise.
C29_SortinoDegenerateRule ==
    HasReturned =>
        LET r == ratios_call.r
            sortino == ratios_call.ratios.sortino_ratio
        IN  /\ Len(r) < 2 => sortino = Zero
            /\ (Len(r) >= 2 /\ \A k \in 1..Len(r) : r[k].num >= 0)
                  => sortino = IF Mean(r).num > 0 THEN Inf ELSE Zero

(* ---- C30 --------------------------------------------------------------- *)
\* C30: when the bundle carries no max_drawdown_pct and the series has fewer
\* than 2 elements, the drawdown is the fixed 1% and Calmar is the growth
\* rate over 0.01.
C30_FixedDrawdownForShortSeries ==
    (/\ HasReturned
     /\ ratios_call.results.max_drawdown_pct = None
     /\ Len(ratios_call.r) < 2)
        => /\ ratios_call.max_dd = Rational(0 - 1, 100)
           /\ ratios_call.ratios.calmar_ratio.kind = "quotient"
           /\ ratios_call.ratios.calmar_ratio.drawdown = Rational(1, 100)

(* ---- C31 --------------------------------------------------------------- *)
RatioKeys == {"sharpe_ratio", "sortino_ratio", "calmar_ratio"}

\* C31: the ratio engine never raises: whatever the input (an empty series,
\* a series without downside, no drawdown, missing fields, an unknown
\* period), the call returns a dictionary with exactly the entries
\* sharpe_ratio, sortino_ratio and calmar_ratio, none of which is an
\* exception that escaped.
C31_EngineNeverRaises ==
    HasReturned =>
        /\ DOMAIN ratios_call.ratios = RatioKeys
        /\ \A key \in RatioKeys : ratios_call.ratios[key].kind # "raised"

\* an exception was raised inside the try block (the comparison of a complex
\* growth rate with 0) and the call still returned its three entries
C31_Witness ==
    /\ HasReturned
    /\ ratios_call.caught = <<"TypeError">>
    /\ ratios_call.results.net_pnl_pct = <<0 - 150>>
    /\ ratios_call.r = <<Rational(1, 4), Rational(1, 4)>>
    /\ ratios_call.max_dd = Rational(0, 1)
    /\ \A key \in RatioKeys : ratios_call.ratios[key] = Zero

(* ---- C32 --------------------------------------------------------------- *)
\* a finite real number or positive infinity
RealOrInf(v) == v.kind \in {"zero", "inf", "sqrt_term", "growth", "quotient"}

\* C32: each of the three ratios returned is a finite real number or
\* positive infinity, never NaN, for every aggregate return and every
\* series, trades that lose more than 100% included.
C32_RatiosRealOrInfinite ==
    HasReturned => \A key \in RatioKeys : RealOrInf(ratios_call.ratios[key])

(* ---- C33 --------------------------------------------------------------- *)
\* the Evaluator calls in flight in batches that left max_concurrent out
DefaultInFlight ==
    {u \in TaskIds \X (0..(MaxConfigs - 1)) :
        /\ u[1] \in Created
        /\ cfg[u[1]].max_concurrent = None
        /\ u[2] \in Indices(u[1])
        /\ pc[u[1]][u[2]] = "in_evaluator"}

\* C33: with default settings at most 5 backtests run at once in the
\* service: the Evaluator calls in flight, over all batches that use the
\* default cap, never number more than 5.
C33_ServiceWideDefaultCap ==
    Cardinality(DefaultInFlight) <= DefaultConcurrent

(* ---- C34 --------------------------------------------------------------- *)
\* C34: the admission gate neither leaks nor gains permits: once a batch
\* has its gate, the units holding it plus the free permits number the
\* value the gate was made with, whichever way units have ended (a result,
\* a failure of the Evaluator, an invalid result, a failure to prepare, a
\* record that was gone).
C34_PermitsConserved ==
    \A j \in Created :
        orch[j] \in {"gathering", "done"} =>
            /\ semaphore[j] >= 0
            /\ Cardinality(InFlight(j)) + semaphore[j] = SemaphoreInit(cfg[j].max_concurrent)

\* a batch of three under a cap of 2: one unit ended because the Evaluator
\* raised, one because its result was invalid, the third holds the gate
C34_Witness ==
    \E j \in Created :
        /\ orch[j] = "gathering"
        /\ cfg[j].n = 3
        /\ cfg[j].max_concurrent = <<2>>
        /\ outcome[j][0] = "raised"
        /\ outcome[j][1] = "invalid"
        /\ pc[j][2] = "in_evaluator"
        /\ semaphore[j] = 1

(* ---- C35 --------------------------------------------------------------- *)
\* C35: once a job has been deleted, no Evaluator call is started for any
\* of its configurations: a unit of the job that was not inside the
\* Evaluator does not enter it, and a unit that was waiting at the gate ends
\* at the lookup of the record.
C35_NoEvaluatorCallAfterDelete ==
    [][\A j \in deleted : \A i \in Indices(j) :
          /\ pc'[j][i] = "in_evaluator" => pc[j][i] = "in_evaluator"
          /\ (pc[j][i] = "waiting" /\ pc'[j][i] # "waiting")
                => pc'[j][i] = "done" /\ outcome'[j][i] = "lookup_failed"]_vars

\* a job of three under a cap of 1 was deleted while its first unit was
\* inside the Evaluator: that unit has committed its result and both units
\* that were waiting ended at the lookup, once each
C35_Witness ==
    \E j \in deleted :
        /\ cfg[j].n = 3
        /\ cfg[j].max_concurrent = <<1>>
        /\ outcome[j][0] = "ok"
        /\ outcome[j][1] = "lookup_failed" /\ launched[j][1] = 1
        /\ outcome[j][2] = "lookup_failed" /\ launched[j][2] = 1

(* ---- C36 --------------------------------------------------------------- *)
\* the hour at which the last result or error of a job was recorded
LastRecorded(j) ==
    LET stamps == {rec[j].results[k].timestamp : k \in 1..Len(rec[j].results)}
                  \cup {rec[j].errors[k].timestamp : k \in 1..Len(rec[j].errors)}
    IN  IF stamps = {} THEN now ELSE CHOOSE t \in stamps : \A u \in stamps : u <= t

\* C36: when cleanup_completed_tasks(max_age_hours) has run, no job that is
\* completed or failed and older than max_age_hours is left in the
\* registry, failed jobs without any result included.
C36_CleanupRemovesOldTerminalJobs ==
    response.endpoint = "cleanup" =>
        \A j \in active_tasks :
            ~(rec[j].status \in Terminal /\ now - LastRecorded(j) > response.arg)

(* ---- C37 --------------------------------------------------------------- *)
\* a job cleanup_completed_tasks(max_age_hours) must keep
Protected(j, max_age_hours) ==
    \/ rec[j].status \in {"pending", "running"}
    \/ /\ rec[j].status \in Terminal
       /\ rec[j].results # <<>>
       /\ age_hours(rec[j]) <= max_age_hours

\* C37: a record leaves the registry only in a DELETE request or a call of
\* cleanup_completed_tasks; the call removes no pending or running job and
\* no terminal job whose last result is not older than max_age_hours, and
\* changes no record.
C37_RecordsLeaveOnlyByDeleteOrCleanup ==
    [][/\ (\E j \in active_tasks : j \notin active_tasks')
            => response'.endpoint \in {"delete", "cleanup"}
       /\ response'.endpoint = "cleanup"
            => /\ \A j \in active_tasks :
                      Protected(j, response'.arg) => j \in active_tasks'
               /\ rec' = rec]_vars

\* an hour after both jobs recorded a result, cleanup_completed_tasks(0) has
\* removed the completed job and kept the one that is still running
C37_Witness ==
    /\ response = Exchange("cleanup", 0, 0, 0)
    /\ 1 \in Created \ (active_tasks \cup deleted)
    /\ rec[1].status = "completed"
    /\ 2 \in active_tasks
    /\ rec[2].status = "running"
    /\ rec[2].results # <<>>
    /\ age_hours(rec[2]) > 0

(* ---- C38 --------------------------------------------------------------- *)
\* C38: an add-credential request that fails (any answer but 201) leaves
\* what was stored for its account and connector before the request as it
\* was: a failed update does not remove credentials stored earlier.
C38_FailedUpdateKeepsCredentials ==
    [][(response'.endpoint = "add_credential" /\ response'.status_code # 201)
          => credentials'[response'.arg] = credentials[response'.arg]]_vars
====
